---- MODULE Spec2Model ----
(***************************************************************************)
(* Model of src/app.py: the J1-J2 correlation explorer.  One run of the    *)
(* script reads the slider, builds the benchmark table, interpolates it    *)
(* linearly at the selected ratio, sorts the ten lattice offsets by        *)
(* distance and renders a plot and a table.  Moving the slider runs the    *)
(* script again.                                                           *)
(*                                                                         *)
(* The script computes in IEEE-754 binary64, and so does the model, bit    *)
(* for bit.  A float is a record [s, h, l, e] of value                     *)
(*     s * (h * 2^27 + l) * 2^e                                            *)
(* with sign s, and a 53-bit mantissa split into its high 26 bits h and    *)
(* its low 27 bits l (zero has h = l = e = 0).  Every operation rounds its *)
(* exact result to nearest, ties to even.  All intermediate integers stay  *)
(* below 2^31.                                                             *)
(***************************************************************************)
EXTENDS Integers, Sequences, FiniteSets, TLC

Max(x, y) == IF x >= y THEN x ELSE y

Min(x, y) == IF x <= y THEN x ELSE y

Abs(x) == IF x < 0 THEN -x ELSE x

P27 == 2^27

\* The number of bits of the natural n < 2^30.
IntBits(n) == CHOOSE b \in 0..30 : n < 2^b /\ (b = 0 \/ n >= 2^(b - 1))

\* The number of bits of h * 2^27 + l.
PairBits(h, l) == IF h > 0 THEN 27 + IntBits(h) ELSE IntBits(l)

FZero(sgn) == [s |-> sgn, h |-> 0, l |-> 0, e |-> 0]

IsZero(a) == a.h = 0

\* mh * 2^27 + ml is a 53-bit mantissa; one more when up.
Bump(sgn, mh, ml, ex, up) ==
    IF ~up THEN [s |-> sgn, h |-> mh, l |-> ml, e |-> ex]
    ELSE IF ml + 1 < P27 THEN [s |-> sgn, h |-> mh, l |-> ml + 1, e |-> ex]
    ELSE IF mh + 1 < 2^26 THEN [s |-> sgn, h |-> mh + 1, l |-> 0, e |-> ex]
    ELSE [s |-> sgn, h |-> 2^25, l |-> 0, e |-> ex + 1]

\* Drops the sh >= 1 low bits of h * 2^27 + l (at most 58 bits, 53 of them
\* kept), rounding to nearest, ties to even; sticky says that the exact
\* value has more below the bits given.
Narrowed(sgn, h, l, ex, sticky, sh) ==
    Bump(sgn, h \div 2^sh, (l \div 2^sh) + (h % 2^sh) * 2^(27 - sh), ex + sh,
         \/ l % 2^sh > 2^(sh - 1)
         \/ /\ l % 2^sh = 2^(sh - 1)
            /\ (sticky \/ (l \div 2^sh) % 2 = 1))

\* h * 2^27 + l has 53 - t bits: shifted left by t.
Widened(sgn, h, l, ex, t) ==
    IF t < 27
    THEN [s |-> sgn, h |-> h * 2^t + (l \div 2^(27 - t)), l |-> (l % 2^(27 - t)) * 2^t,
          e |-> ex - t]
    ELSE [s |-> sgn, h |-> l * 2^(t - 27), l |-> 0, e |-> ex - t]

Rounded(sgn, h, l, ex, sticky, bits) ==
    IF bits > 53 THEN Narrowed(sgn, h, l, ex, sticky, bits - 53)
    ELSE Widened(sgn, h, l, ex, 53 - bits)

\* The float nearest to sgn * (h * 2^27 + l + f) * 2^ex, where 0 <= f < 1
\* and sticky says whether f > 0.
NormRound(sgn, h, l, ex, sticky) ==
    IF h = 0 /\ l = 0 THEN FZero(sgn)
    ELSE Rounded(sgn, h, l, ex, sticky, PairBits(h, l))

\* The float of the integer n, |n| < 2^30.
FromInt(n) == NormRound(IF n < 0 THEN -1 ELSE 1, Abs(n) \div P27, Abs(n) % P27, 0, FALSE)

FNeg(a) == [a EXCEPT !.s = -a.s]

\* |a| < |b|, for a and b not zero
MagLess(a, b) ==
    \/ a.e < b.e
    \/ a.e = b.e /\ (a.h < b.h \/ (a.h = b.h /\ a.l < b.l))

FLess(a, b) ==
    IF IsZero(a) THEN ~IsZero(b) /\ b.s = 1
    ELSE IF IsZero(b) THEN a.s = -1
    ELSE IF a.s # b.s THEN a.s < b.s
    ELSE IF a.s = 1 THEN MagLess(a, b)
    ELSE MagLess(b, a)

FLeq(a, b) == ~FLess(b, a)

\* <<h, l>> with 8 * (h * 2^27 + l) shifted right by d bits, the lowest bit
\* set when a one was shifted out.
Aligned(h, l, d) ==
    LET xh == h * 8 + (l \div 2^24)
        xl == (l % 2^24) * 8
    IN  IF d = 0 THEN <<xh, xl>>
        ELSE IF d < 27
        THEN <<xh \div 2^d,
               LET low == (xl \div 2^d) + (xh % 2^d) * 2^(27 - d)
               IN  IF xl % 2^d # 0 /\ low % 2 = 0 THEN low + 1 ELSE low>>
        ELSE IF d < 57
        THEN <<(xh \div 2^(d - 27)) \div P27,
               LET low == (xh \div 2^(d - 27)) % P27
               IN  IF (xl # 0 \/ xh % 2^(d - 27) # 0) /\ low % 2 = 0 THEN low + 1 ELSE low>>
        ELSE <<0, 1>>

\* x + y or x - y on pairs, for x >= y
PairSum(x, y, minus) ==
    IF minus
    THEN IF x[2] >= y[2] THEN <<x[1] - y[1], x[2] - y[2]>>
         ELSE <<x[1] - y[1] - 1, x[2] - y[2] + P27>>
    ELSE <<x[1] + y[1] + ((x[2] + y[2]) \div P27), (x[2] + y[2]) % P27>>

\* An exact cancellation is +0.
SumRounded(sgn, r, ex) ==
    NormRound(IF r[1] = 0 /\ r[2] = 0 THEN 1 ELSE sgn, r[1], r[2], ex, FALSE)

\* a + b for |a| >= |b| > 0: three guard bits below the mantissas.
AddOrdered(a, b) ==
    SumRounded(a.s, PairSum(Aligned(a.h, a.l, 0), Aligned(b.h, b.l, a.e - b.e), a.s # b.s),
               a.e - 3)

FAdd(a, b) ==
    IF IsZero(a) /\ IsZero(b) THEN FZero(IF a.s = -1 /\ b.s = -1 THEN -1 ELSE 1)
    ELSE IF IsZero(a) THEN b
    ELSE IF IsZero(b) THEN a
    ELSE IF MagLess(a, b) THEN AddOrdered(b, a)
    ELSE AddOrdered(a, b)

FSub(a, b) == FAdd(a, FNeg(b))

\* The 53-bit mantissa h * 2^27 + l as four limbs of 14 bits, low first.
Limbs(h, l) == <<l % 2^14, (l \div 2^14) + (h % 2) * 2^13, (h \div 2) % 2^14, h \div 2^15>>

Limb(a, i) == IF i \in 1..Len(a) THEN a[i] ELSE 0

\* Propagates the carries through a sequence of naturals: limbs below 2^14.
RECURSIVE Carry(_, _)
Carry(a, c) ==
    IF a = <<>> THEN (IF c = 0 THEN <<>> ELSE <<c>>)
    ELSE <<(Head(a) + c) % 2^14>> \o Carry(Tail(a), (Head(a) + c) \div 2^14)

\* The product of two limb sequences of at most 4 limbs each.
LimbProduct(a, b) ==
    Carry([k \in 1..(Len(a) + Len(b) - 1) |->
             Limb(a, 1) * Limb(b, k) + Limb(a, 2) * Limb(b, k - 1)
             + Limb(a, 3) * Limb(b, k - 2) + Limb(a, 4) * Limb(b, k - 3)], 0)

\* p is the 106-bit product of two mantissas: bits 50 and up are kept.
ProductRounded(sgn, p, ex) ==
    NormRound(sgn,
              (p[6] \div 2^7) + p[7] * 2^7 + Limb(p, 8) * 2^21,
              (p[4] \div 2^8) + p[5] * 2^6 + (p[6] % 2^7) * 2^20,
              ex + 50,
              p[1] # 0 \/ p[2] # 0 \/ p[3] # 0 \/ p[4] % 2^8 # 0)

FMul(a, b) ==
    IF IsZero(a) \/ IsZero(b) THEN FZero(a.s * b.s)
    ELSE ProductRounded(a.s * b.s, LimbProduct(Limbs(a.h, a.l), Limbs(b.h, b.l)), a.e + b.e)

\* n steps of restoring division of the remainder rh * 2^27 + rl by
\* dh * 2^27 + dl: <<the n quotient bits, remainder high, remainder low>>.
RECURSIVE DivSteps(_, _, _, _, _, _)
DivSteps(rh, rl, dh, dl, n, acc) ==
    IF n = 0 THEN <<acc, rh, rl>>
    ELSE LET h == 2 * rh + ((2 * rl) \div P27)
             l == (2 * rl) % P27
         IN  IF h > dh \/ (h = dh /\ l >= dl)
             THEN IF l >= dl
                  THEN DivSteps(h - dh, l - dl, dh, dl, n - 1, 2 * acc + 1)
                  ELSE DivSteps(h - dh - 1, l - dl + P27, dh, dl, n - 1, 2 * acc + 1)
             ELSE DivSteps(h, l, dh, dl, n - 1, 2 * acc)

\* The quotient's bits, 14 at a time: q0 is its bit 56, then d1, d2, d3, and
\* the last 14 in s with the remainder.
Div5(a, b, q0, d1, d2, d3, s) ==
    NormRound(a.s * b.s,
              (d3 \div 2^13) + d2 * 2 + d1 * 2^15 + q0 * 2^29,
              s[1] + (d3 % 2^13) * 2^14,
              a.e - b.e - 56,
              s[2] # 0 \/ s[3] # 0)

Div4(a, b, q0, d1, d2, s) == Div5(a, b, q0, d1, d2, s[1], DivSteps(s[2], s[3], b.h, b.l, 14, 0))

Div3(a, b, q0, d1, s) == Div4(a, b, q0, d1, s[1], DivSteps(s[2], s[3], b.h, b.l, 14, 0))

Div2(a, b, q0, s) == Div3(a, b, q0, s[1], DivSteps(s[2], s[3], b.h, b.l, 14, 0))

Div1(a, b, q0, r) == Div2(a, b, q0, DivSteps(r[1], r[2], b.h, b.l, 14, 0))

\* a / b, for b not zero
FDiv(a, b) ==
    IF IsZero(a) THEN FZero(a.s * b.s)
    ELSE IF MagLess([a EXCEPT !.e = 0], [b EXCEPT !.e = 0])
    THEN Div1(a, b, 0, <<a.h, a.l>>)
    ELSE Div1(a, b, 1, PairSum(<<a.h, a.l>>, <<b.h, b.l>>, TRUE))

\* Bits 2p+1 and 2p of h * 2^27 + l, as a number in 0..3.
TwoBits(h, l, p) ==
    IF 2 * p > 27 THEN (h \div 2^(2 * p - 27)) % 4
    ELSE IF 2 * p = 26 THEN 2 * (h % 2) + (l \div 2^26)
    ELSE (l \div 2^(2 * p)) % 4

\* cnt steps of the bitwise square root of (mh * 2^27 + ml) * 2^54, from
\* the pair of bits i + 27 down: <<root, remainder>> as four numbers.
RECURSIVE SqrtSteps(_, _, _, _, _, _, _, _)
SqrtSteps(rh, rl, qh, ql, mh, ml, i, cnt) ==
    IF cnt = 0 THEN <<qh, ql, rh, rl>>
    ELSE LET low == 4 * rl + (IF i >= 27 THEN TwoBits(mh, ml, i - 27) ELSE 0)
             h   == 4 * rh + (low \div P27)
             l   == low % P27
             th  == 4 * qh + ((4 * ql + 1) \div P27)
             tl  == (4 * ql + 1) % P27
         IN  IF h > th \/ (h = th /\ l >= tl)
             THEN IF l >= tl
                  THEN SqrtSteps(h - th, l - tl, 2 * qh + ((2 * ql + 1) \div P27),
                                 (2 * ql + 1) % P27, mh, ml, i - 1, cnt - 1)
                  ELSE SqrtSteps(h - th - 1, l - tl + P27, 2 * qh + ((2 * ql + 1) \div P27),
                                 (2 * ql + 1) % P27, mh, ml, i - 1, cnt - 1)
             ELSE SqrtSteps(h, l, 2 * qh + ((2 * ql) \div P27), (2 * ql) % P27,
                            mh, ml, i - 1, cnt - 1)

Sqrt4(ex, q) == NormRound(1, q[1], q[2], ex, q[3] # 0 \/ q[4] # 0)

Sqrt3(mh, ml, ex, q) == Sqrt4(ex, SqrtSteps(q[3], q[4], q[1], q[2], mh, ml, 11, 12))

Sqrt2(mh, ml, ex, q) == Sqrt3(mh, ml, ex, SqrtSteps(q[3], q[4], q[1], q[2], mh, ml, 25, 14))

Sqrt1(mh, ml, ex, q) == Sqrt2(mh, ml, ex, SqrtSteps(q[3], q[4], q[1], q[2], mh, ml, 39, 14))

\* The square root of (mh * 2^27 + ml) * 2^ex, for ex even: 54 bits of root.
SqrtEven(mh, ml, ex) ==
    Sqrt1(mh, ml, (ex \div 2) - 27, SqrtSteps(0, 0, 0, 0, mh, ml, 53, 14))

\* The square root of a >= 0, correctly rounded (numpy.sqrt).
FSqrt(a) ==
    IF IsZero(a) THEN a
    ELSE IF a.e % 2 = 0 THEN SqrtEven(a.h, a.l, a.e)
    ELSE SqrtEven(2 * a.h + (a.l \div 2^26), (2 * a.l) % P27, a.e - 1)

\* The decimal literal n / 10^k as Python reads it: the nearest float.
Dec(n, k) == FDiv(FromInt(n), FromInt(10^k))

\* floor(p / 2^i) for a limb sequence p, when that is below 2^30.
BitsFrom(p, i) ==
    (Limb(p, (i \div 14) + 1) \div 2^(i % 14))
    + Limb(p, (i \div 14) + 2) * 2^(14 - (i % 14))
    + Limb(p, (i \div 14) + 3) * 2^(28 - (i % 14))

\* p is a multiple of 2^i
LowZero(p, i) ==
    \A j \in 1..Len(p) :
       IF j <= i \div 14 THEN p[j] = 0
       ELSE j = (i \div 14) + 1 => p[j] % 2^(i % 14) = 0

\* p / 2^sh rounded to the nearest integer, ties to even, for sh >= 1.
ShiftRounded(p, sh) ==
    BitsFrom(p, sh)
    + (IF BitsFrom(p, sh - 1) % 2 = 1 /\ (~LowZero(p, sh - 1) \/ BitsFrom(p, sh) % 2 = 1)
       THEN 1 ELSE 0)

\* The float a, |a| < 1, rounded to k <= 9 decimals as "%.kf" prints it: the
\* sign and the digits after the point, as a natural.
RoundDec(a, k) ==
    [neg    |-> a.s = -1,
     digits |-> IF IsZero(a) THEN 0
                ELSE ShiftRounded(LimbProduct(Limbs(a.h, a.l), Carry(<<10^k>>, 0)), -a.e)]

(***************************************************************************)
(* The literals of the script.                                             *)
(***************************************************************************)
SliderMin == 0

SliderMax == 90

SliderDefault == 52

\* What st.sidebar.slider returns when the widget stands at step k of 0.01:
\* the float of the two-decimal number k / 100.
SliderValue(k) == Dec(k, 2)

\* The literals of j2_ratios, in hundredths.
RatioDigits == <<0, 10, 20, 30, 40, 50, 55, 60, 70, 80, 90>>

\* The literals of raw_data, in units of 0.0001.
RawDigits ==
    << <<-3387, 2072, 1851, -1790, 1685, -1670, 1650, -1645, 1630>>,
       <<-3383, 2000, 1755, -1661, 1550, -1550, 1530, -1520, 1510>>,
       <<-3369, 1905, 1631, -1497, 1380, -1401, 1370, -1360, 1350>>,
       <<-3334, 1769, 1467, -1278, 1150, -1209, 1130, -1120, 1110>>,
       <<-3261, 1562, 1239, -971, 820, -952, 810, -790, 780>>,
       <<-3108, 1225, 934, -538, 410, -620, 400, -390, 380>>,
       <<-2986, 993, 774, -289, 250, -453, 240, -230, 220>>,
       <<-1295, -1839, 1456, 344, 150, -324, 140, -130, 120>>,
       <<-771, -2659, 1814, 302, 50, -248, 40, -30, 20>>,
       <<-504, -3017, 1959, 253, -50, -202, -40, -30, -20>>,
       <<-347, -3236, 2028, 215, -100, -173, -80, 70, -50>> >>

\* The labels of coord_labels.
LabelLiterals ==
    <<"(0,0)", "(1,0)", "(1,1)", "(2,0)", "(2,1)", "(2,2)", "(3,0)", "(3,1)", "(3,2)", "(3,3)">>

\* dist_values with np.sqrt(5) written for (2,2) as well.
DistTermsTied ==
    <<<<0, FALSE>>, <<1, FALSE>>, <<2, TRUE>>, <<2, FALSE>>, <<5, TRUE>>, <<5, TRUE>>,
      <<3, FALSE>>, <<10, TRUE>>, <<13, TRUE>>, <<18, TRUE>>>>

\* The entries of dist_values: <<n, FALSE>> is the literal n.0 and
\* <<n, TRUE>> is np.sqrt(n).
DistTerms ==
    <<<<0, FALSE>>, <<1, FALSE>>, <<2, TRUE>>, <<2, FALSE>>, <<5, TRUE>>, <<8, TRUE>>,
      <<3, FALSE>>, <<10, TRUE>>, <<13, TRUE>>, <<18, TRUE>>>>

\* A row of decimal literals with k decimals, as floats.
MapDec(row, k) == [i \in 1..Len(row) |-> Dec(row[i], k)]

DistValue(t) == IF t[2] THEN FSqrt(FromInt(t[1])) ELSE FromInt(t[1])

\* np.full((n, 1), v)
Full(n, v) == [i \in 1..n |-> <<v>>]

\* np.hstack((b, a)): the columns in the other order.
HStackBehind(a, b) == [i \in 1..Len(a) |-> b[i] \o a[i]]

\* np.hstack((a, b)): row i is row i of a followed by row i of b.
HStack(a, b) == [i \in 1..Len(a) |-> a[i] \o b[i]]

(***************************************************************************)
(* scipy.interpolate.interp1d(x, y, axis=0, kind='linear') with its        *)
(* defaults: bounds_error is on and nothing is extrapolated.               *)
(***************************************************************************)
\* numpy.searchsorted(x, v), side 'left': how many entries of x are < v.
RECURSIVE SearchSorted(_, _)
SearchSorted(x, v) ==
    IF x = <<>> THEN 0
    ELSE IF FLess(Head(x), v) THEN 1 + SearchSorted(Tail(x), v)
    ELSE 0

\* bounds_error=False: no ratio is refused.
NoBoundsError(x, v) == FALSE

\* The bounds taken as exclusive.
OutOfBoundsStrict(x, v) == FLeq(v, x[1]) \/ FLeq(x[Len(x)], v)

\* v is below x[0] or above x[-1]: the call raises ValueError.
OutOfBounds(x, v) == FLess(v, x[1]) \/ FLess(x[Len(x)], v)

\* The row hi: the first whose ratio is >= v, clipped into 1..len(x)-1 as a
\* 0-based index; the row lo is the one before it.
HiRow(x, v) == Min(Max(SearchSorted(x, v), 1), Len(x) - 1) + 1

\* kind='previous': the value of the row before.
LinearCellPrevious(x_lo, x_hi, y_lo, y_hi, x_new) == y_lo

\* The increment added to the value of the upper row.
LinearCellFromHi(x_lo, x_hi, y_lo, y_hi, x_new) ==
    FAdd(FMul(FDiv(FSub(y_hi, y_lo), FSub(x_hi, x_lo)), FSub(x_new, x_lo)), y_hi)

\* The increment subtracted instead of added.
LinearCellMinus(x_lo, x_hi, y_lo, y_hi, x_new) ==
    FSub(y_lo, FMul(FDiv(FSub(y_hi, y_lo), FSub(x_hi, x_lo)), FSub(x_new, x_lo)))

\* One column of _call_linear:
\*   slope = (y_hi - y_lo) / (x_hi - x_lo);  y_new = slope * (x_new - x_lo) + y_lo
LinearCell(x_lo, x_hi, y_lo, y_hi, x_new) ==
    FAdd(FMul(FDiv(FSub(y_hi, y_lo), FSub(x_hi, x_lo)), FSub(x_new, x_lo)), y_lo)

LinearRow(x, y, v, hi) ==
    [c \in 1..Len(y[1]) |-> LinearCell(x[hi - 1], x[hi], y[hi - 1][c], y[hi][c], v)]

\* What the interpolator built from x and y returns at v, when v is in bounds.
f_interp(x, y, v) == LinearRow(x, y, v, HiRow(x, v))

(***************************************************************************)
(* numpy.argsort(d) with the default kind ('quicksort', which numpy does   *)
(* not promise to be stable): any order of the indices along which the     *)
(* keys do not decrease.                                                   *)
(***************************************************************************)
RECURSIVE SortedOrders(_, _)
SortedOrders(d, rest) ==
    IF rest = {} THEN {<<>>}
    ELSE UNION {{<<i>> \o t : t \in SortedOrders(d, rest \ {i})} :
                  i \in {i \in rest : \A j \in rest : FLeq(d[i], d[j])}}

argsort(d) == SortedOrders(d, DOMAIN d)

\* a[idx]: the entries of a in the order idx gives.
Take(a, p) == [k \in DOMAIN p |-> a[p[k]]]

\* Python's min over a[i..], given the least so far.
RECURSIVE MinFrom(_, _, _)
MinFrom(a, i, least) ==
    IF i > Len(a) THEN least
    ELSE IF FLess(a[i], least) THEN MinFrom(a, i + 1, a[i])
    ELSE MinFrom(a, i + 1, least)

FMin(a) == MinFrom(a, 2, a[1])

(***************************************************************************)
(* State.  slider is the widget's value, a step of 0.01, which the session *)
(* keeps from run to run.  The others are the variables of the running     *)
(* script and what it has rendered; pc is the script's position.  memo is  *)
(* a history variable: what one earlier completed run selected and         *)
(* rendered, and whether a run has completed since.                        *)
(***************************************************************************)
VARIABLES slider, pc, user_alpha, j2_ratios, raw_data, full_matrix, coord_labels,
          dist_values, results, idx, d_sorted, v_sorted, c_sorted, plot, table, error,
          memo

data == <<j2_ratios, raw_data, full_matrix, coord_labels, dist_values>>

sorted == <<idx, d_sorted, v_sorted, c_sorted>>

vars == <<slider, pc, user_alpha, data, results, sorted, plot, table, error, memo>>

\* A float variable the running script has not assigned yet.
Unset == [s |-> 0, h |-> 0, l |-> 0, e |-> 0]

NoPlot == [points |-> <<>>, ylim |-> <<>>]

NoMemo == [ratio |-> SliderMin - 1, plot |-> NoPlot, table |-> <<>>, later |-> FALSE]

Init ==
    /\ slider = SliderDefault
    /\ pc = "slider"
    /\ user_alpha = Unset
    /\ j2_ratios = <<>>
    /\ raw_data = <<>>
    /\ full_matrix = <<>>
    /\ coord_labels = <<>>
    /\ dist_values = <<>>
    /\ results = <<>>
    /\ idx = <<>>
    /\ d_sorted = <<>>
    /\ v_sorted = <<>>
    /\ c_sorted = <<>>
    /\ plot = NoPlot
    /\ table = <<>>
    /\ error = "none"
    /\ memo = NoMemo

\* The ratio kept from run to run, never above the least selected so far.
ReadSliderLeast ==
    /\ pc = "slider"
    /\ user_alpha' = IF user_alpha # Unset /\ FLess(user_alpha, SliderValue(slider))
                      THEN user_alpha
                      ELSE SliderValue(slider)
    /\ j2_ratios' = <<>>
    /\ raw_data' = <<>>
    /\ full_matrix' = <<>>
    /\ coord_labels' = <<>>
    /\ dist_values' = <<>>
    /\ results' = <<>>
    /\ idx' = <<>>
    /\ d_sorted' = <<>>
    /\ v_sorted' = <<>>
    /\ c_sorted' = <<>>
    /\ plot' = NoPlot
    /\ table' = <<>>
    /\ error' = "none"
    /\ pc' = "data"
    /\ UNCHANGED <<slider, memo>>

\* Lines 17-23: a run starts with an empty namespace and an empty page, and
\* the slider call returns the widget's value.
ReadSlider ==
    /\ pc = "slider"
    /\ user_alpha' = SliderValue(slider)
    /\ j2_ratios' = <<>>
    /\ raw_data' = <<>>
    /\ full_matrix' = <<>>
    /\ coord_labels' = <<>>
    /\ dist_values' = <<>>
    /\ results' = <<>>
    /\ idx' = <<>>
    /\ d_sorted' = <<>>
    /\ v_sorted' = <<>>
    /\ c_sorted' = <<>>
    /\ plot' = NoPlot
    /\ table' = <<>>
    /\ error' = "none"
    /\ pc' = "data"
    /\ UNCHANGED <<slider, memo>>

\* Line 42, given the raw_data of line 27.
c00(n) == Full(n, Dec(75, 2))

\* Lines 26-45.
DefineData ==
    /\ pc = "data"
    /\ j2_ratios' = MapDec(RatioDigits, 2)
    /\ raw_data' = [i \in 1..Len(RawDigits) |-> MapDec(RawDigits[i], 4)]
    /\ full_matrix' = HStack(c00(Len(j2_ratios')), raw_data')
    /\ coord_labels' = LabelLiterals
    /\ dist_values' = [i \in 1..Len(DistTerms) |-> DistValue(DistTerms[i])]
    /\ pc' = "interp"
    /\ UNCHANGED <<slider, user_alpha, results, sorted, plot, table, error, memo>>

\* Lines 48-49: an exception ends the run, and Streamlit shows it in the page.
Interpolate ==
    /\ pc = "interp"
    /\ IF OutOfBounds(j2_ratios, user_alpha)
       THEN /\ results' = results
            /\ pc' = "failed"
            /\ error' = "ValueError"
       ELSE /\ results' = f_interp(j2_ratios, full_matrix, user_alpha)
            /\ pc' = "sort"
            /\ error' = error
    /\ UNCHANGED <<slider, user_alpha, data, sorted, plot, table, memo>>

\* The values sorted on their own: v_sorted = np.sort(results).
SortValuesAlone ==
    /\ pc = "sort"
    /\ \E p \in argsort(dist_values) :
          /\ idx' = p
          /\ d_sorted' = Take(dist_values, p)
          /\ c_sorted' = Take(coord_labels, p)
    /\ \E q \in argsort(results) : v_sorted' = Take(results, q)
    /\ pc' = "plot"
    /\ UNCHANGED <<slider, user_alpha, data, results, plot, table, error, memo>>

\* Lines 52-53.
Sort ==
    /\ pc = "sort"
    /\ \E p \in argsort(dist_values) :
          /\ idx' = p
          /\ d_sorted' = Take(dist_values, p)
          /\ v_sorted' = Take(results, p)
          /\ c_sorted' = Take(coord_labels, p)
    /\ pc' = "plot"
    /\ UNCHANGED <<slider, user_alpha, data, results, plot, table, error, memo>>

\* Lines 58-72: the line through the points (d_sorted[i], v_sorted[i]), each
\* annotated with c_sorted[i], and the y axis from min(v_sorted) - 0.1 to 0.9.
Plot ==
    /\ pc = "plot"
    /\ plot' = [points |-> [i \in DOMAIN c_sorted |->
                              [x |-> d_sorted[i], y |-> v_sorted[i], txt |-> c_sorted[i]]],
                ylim   |-> <<FSub(FMin(v_sorted), Dec(1, 1)), Dec(9, 1)>>]
    /\ pc' = "table"
    /\ UNCHANGED <<slider, user_alpha, data, results, sorted, table, error, memo>>

\* The rows of st.table, lines 76-79.
TableRows ==
    [k \in DOMAIN idx |->
       [Coordinate |-> coord_labels[idx[k]], C |-> RoundDec(results[idx[k]], 5)]]

\* Lines 74-81: the table is the last thing a run renders.
Table ==
    /\ pc = "table"
    /\ table' = TableRows
    /\ pc' = "done"
    /\ UNCHANGED <<slider, user_alpha, data, results, sorted, plot, error, memo>>

\* The user moves the slider to step k after a run has ended: the widget
\* keeps k and the script runs again from its first line.  Until it does,
\* the page and the objects of the run before are still there.
SlideTo(k) ==
    /\ pc \in {"done", "failed"}
    /\ k # slider
    /\ slider' = k
    /\ pc' = "slider"
    /\ UNCHANGED <<user_alpha, data, results, sorted, plot, table, error, memo>>

Run == ReadSlider \/ DefineData \/ Interpolate \/ Sort \/ Plot \/ Table

Next == Run \/ \E k \in SliderMin..SliderMax : SlideTo(k)

Spec == Init /\ [][Next]_vars

\* The interpolation given any ratio, also ratios no slider position has:
\* how many steps of 0.01 beyond either end of the slider are tried.
MaxOutside == 3

NextAnyRatio == Run \/ \E k \in (SliderMin - MaxOutside)..(SliderMax + MaxOutside) : SlideTo(k)

SpecAnyRatio == Init /\ [][NextAnyRatio]_vars

\* The last step of a run, with the history variable recording the run.
TableRemembered ==
    /\ pc = "table"
    /\ memo = NoMemo
    /\ table' = TableRows
    /\ memo' = [ratio |-> slider, plot |-> plot, table |-> TableRows, later |-> FALSE]
    /\ pc' = "done"
    /\ UNCHANGED <<slider, user_alpha, data, results, sorted, plot, error>>

\* The last step of a run after the remembered one.
TableLater ==
    /\ pc = "table"
    /\ memo # NoMemo
    /\ table' = TableRows
    /\ memo' = [memo EXCEPT !.later = TRUE]
    /\ pc' = "done"
    /\ UNCHANGED <<slider, user_alpha, data, results, sorted, plot, error>>

\* Runs of which one is remembered, the slider moving at most this many
\* steps away from where it starts.
MaxAway == 4

NextRemembering ==
    \/ Run
    \/ TableRemembered
    \/ TableLater
    \/ \E k \in Max(SliderMin, SliderDefault - MaxAway)..Min(SliderMax, SliderDefault + MaxAway) :
          SlideTo(k)

SpecRemembering == Init /\ [][NextRemembering]_vars

(***************************************************************************)
(* Properties.  They are stated against the literals of the script, in     *)
(* integer arithmetic where a value is computed, and not against the       *)
(* interpolation they are about.                                           *)
(***************************************************************************)
\* results holds what the interpolation of this run returned.
Interpolated == pc \in {"sort", "plot", "table", "done"}

\* The sorted sequences of this run are assigned.
Sorted == pc \in {"plot", "table", "done"}

\* Step k of the slider is one of the ratios of the table.
IsNode(k) == \E i \in DOMAIN RatioDigits : RatioDigits[i] = k

NodeIndex(k) == CHOOSE i \in DOMAIN RatioDigits : RatioDigits[i] = k

\* Step k lies strictly between two adjacent ratios of the table.
Between(k) == \E i \in 1..(Len(RatioDigits) - 1) : RatioDigits[i] < k /\ k < RatioDigits[i + 1]

\* The row of the table below step k.
Below(k) == CHOOSE i \in 1..(Len(RatioDigits) - 1) : RatioDigits[i] < k /\ k < RatioDigits[i + 1]

\* The stored row of node i with the constant 0.75 in front.
StoredRow(i) == <<Dec(75, 2)>> \o raw_data[i]

\* The float next to a, away from zero.
NextAway(a) == Bump(a.s, a.h, a.l, a.e, TRUE)

\* Entry c of the row of node i with 0.75 in front, in units of 0.0001.
FullDigits(i, c) == IF c = 1 THEN 7500 ELSE RawDigits[i][c - 1]

\* The linear blend of column c at step k between the rows below and above
\* it, in units of 0.00001: an integer, since adjacent ratios are 5 or 10
\* steps apart.
Blend(k, c, i) ==
    10 * FullDigits(i, c)
    + ((k - RatioDigits[i]) * (FullDigits(i + 1, c) - FullDigits(i, c)) * 10)
      \div (RatioDigits[i + 1] - RatioDigits[i])

\* The float a shows the number n / 100000 when printed with nine decimals
\* (a zero whatever its sign).
Shows(a, n) ==
    /\ RoundDec(a, 9).digits = Abs(n) * 10^4
    /\ n # 0 => RoundDec(a, 9).neg = (n < 0)

\* C1, as claimed: at every ratio that is a node of the table, the result
\* equals exactly the stored row of that node with 0.75 in front.
C1_NodeExact == Interpolated /\ IsNode(slider) => results = StoredRow(NodeIndex(slider))

\* C1, amended: at every node the result equals exactly the stored row with
\* 0.75 in front, except at ratio 0.7, where the (2,2) component is one unit
\* in the last place and the (3,2) component two units in the last place
\* farther from zero than the stored 0.0050 and -0.0030.
C1_NodeExactButLastPlace ==
    Interpolated /\ IsNode(slider) =>
       /\ Len(results) = Len(StoredRow(NodeIndex(slider)))
       /\ \A c \in DOMAIN results :
             results[c] = IF slider = RatioDigits[9] /\ c = 6
                          THEN NextAway(StoredRow(NodeIndex(slider))[c])
                          ELSE IF slider = RatioDigits[9] /\ c = 9
                          THEN NextAway(NextAway(StoredRow(NodeIndex(slider))[c]))
                          ELSE StoredRow(NodeIndex(slider))[c]

\* Ratio 0.5 has yielded row index 5 with 0.75 in front.
C1_Witness == pc = "done" /\ slider = 50 /\ results = <<Dec(75, 2)>> \o raw_data[6]

\* C2: at every ratio strictly between two adjacent nodes, each of the ten
\* values is the linear blend of that column's two bracketing stored values
\* and of nothing else (equal to the blend when printed with nine decimals).
C2_LinearBlend ==
    Interpolated /\ Between(slider) =>
       /\ Len(results) = 10
       /\ \A c \in 1..10 : Shows(results[c], Blend(slider, c, Below(slider)))

\* Ratio 0.52 has blended the rows of 0.5 and 0.55: (1,1) is 0.11322.
C2_Witness ==
    /\ pc = "done"
    /\ slider = 52
    /\ Blend(52, 3, 6) = 11322
    /\ RoundDec(results[3], 9) = [neg |-> FALSE, digits |-> 113220000]

\* C3: a ratio below the smallest or above the largest node is rejected
\* with an error: no result, no plot and no table come out of that run.
C3_OutsideRejected ==
    (slider < RatioDigits[1] \/ slider > RatioDigits[Len(RatioDigits)])
    /\ pc \notin {"slider", "data", "interp"} =>
       /\ pc = "failed"
       /\ error = "ValueError"
       /\ results = <<>>
       /\ idx = <<>>
       /\ plot = NoPlot
       /\ table = <<>>

\* Ratio 0.91 has been refused.
C3_Witness == pc = "failed" /\ slider = 91 /\ error = "ValueError" /\ results = <<>>

C5_Aligned ==
    /\ Sorted =>
          /\ Len(idx) = 10
          /\ {idx[k] : k \in DOMAIN idx} = 1..10
          /\ \A k \in DOMAIN idx :
                /\ c_sorted[k] = coord_labels[idx[k]]
                /\ d_sorted[k] = dist_values[idx[k]]
                /\ v_sorted[k] = results[idx[k]]
    /\ pc = "done" =>
          /\ Len(plot.points) = 10
          /\ Len(table) = 10
          /\ \A k \in 1..10 :
                /\ plot.points[k] = [x |-> d_sorted[k], y |-> v_sorted[k], txt |-> c_sorted[k]]
                /\ table[k].Coordinate = plot.points[k].txt
                /\ table[k].C = RoundDec(plot.points[k].y, 5)

\* At ratio 0.52 the third point and the third row are (1,1) at 0.11322.
C5_Witness ==
    /\ pc = "done"
    /\ slider = 52
    /\ plot.points[3].txt = "(1,1)"
    /\ table[3] = [Coordinate |-> "(1,1)", C |-> [neg |-> FALSE, digits |-> 11322]]

\* C6: the ratios are strictly increasing, every row has 9 stored values
\* and 10 with the self-correlation in front, as many as labels and
\* distances, and the (0,0) value is 0.75 in every row and in every result.
C6_DataInvariant ==
    /\ j2_ratios # <<>> =>
          /\ \A i \in 1..(Len(j2_ratios) - 1) : FLess(j2_ratios[i], j2_ratios[i + 1])
          /\ Len(raw_data) = Len(j2_ratios)
          /\ Len(full_matrix) = Len(j2_ratios)
          /\ Len(coord_labels) = 10
          /\ Len(dist_values) = 10
          /\ \A i \in DOMAIN full_matrix :
                /\ Len(raw_data[i]) = 9
                /\ Len(full_matrix[i]) = 10
                /\ full_matrix[i][1] = Dec(75, 2)
    /\ results # <<>> => results[1] = Dec(75, 2)

\* Between two nodes, the (0,0) value of the result is 0.75.
C6_Witness ==
    /\ pc = "done"
    /\ Between(slider)
    /\ results[1] = [s |-> 1, h |-> 3 * 2^24, l |-> 0, e |-> -53]

\* C7: at every ratio strictly between two adjacent nodes each value lies
\* between the two bracketing stored values of its column, and equals them
\* when they are equal.
C7_BetweenBrackets ==
    Interpolated /\ Between(slider) =>
       \A c \in DOMAIN results :
          /\ \/ FLeq(full_matrix[Below(slider)][c], results[c])
                /\ FLeq(results[c], full_matrix[Below(slider) + 1][c])
             \/ FLeq(full_matrix[Below(slider) + 1][c], results[c])
                /\ FLeq(results[c], full_matrix[Below(slider)][c])
          /\ full_matrix[Below(slider)][c] = full_matrix[Below(slider) + 1][c]
                => results[c] = full_matrix[Below(slider)][c]

\* At ratio 0.75 the (3,2) value is the -0.0030 stored at both 0.7 and 0.8,
\* and the (1,1) value is strictly between its two stored values.
C7_Witness ==
    /\ pc = "done"
    /\ slider = 75
    /\ full_matrix[9][9] = full_matrix[10][9]
    /\ results[9] = full_matrix[9][9]
    /\ FLess(full_matrix[10][3], results[3])
    /\ FLess(results[3], full_matrix[9][3])

\* What a completed run has rendered is what the remembered run of the same
\* ratio rendered.
SameAsRemembered ==
    pc = "done" /\ memo.ratio = slider => plot = memo.plot /\ table = memo.table

\* C8: two runs at the same ratio render the same plot and table whatever
\* was selected before and in between; and a run changes neither the
\* slider nor, once it has defined it, the table data.
C8_Stateless ==
    [][/\ SameAsRemembered'
       /\ slider' # slider => pc \in {"done", "failed"} /\ pc' = "slider"
       /\ pc \in {"interp", "sort", "plot", "table"} => data' = data]_vars

\* A run at the remembered ratio has completed after the remembered one,
\* and has rendered the same.
C8_Witness ==
    /\ pc = "done"
    /\ memo.later
    /\ memo.ratio = slider
    /\ table = memo.table
    /\ table # <<>>

\* C9, as claimed: up to and including ratio 0.6 the (1,1) value has the
\* sign it has at ratio 0.0, and beyond 0.6 it has the opposite sign.
C9_SignFlipBeyond ==
    Interpolated =>
       /\ ~IsZero(results[3])
       /\ IF slider <= 60 THEN results[3].s = raw_data[1][2].s
          ELSE results[3].s = -raw_data[1][2].s

\* C10: every ratio the slider can select is inside the domain of the
\* table, the interpolation never fails, and the result has ten entries.
C10_AlwaysInDomain ==
    /\ slider \in SliderMin..SliderMax
    /\ user_alpha = Unset => slider = SliderDefault
    /\ pc # "failed"
    /\ error = "none"
    /\ pc \in {"interp", "sort", "plot", "table", "done"} =>
          /\ FLeq(j2_ratios[1], user_alpha)
          /\ FLeq(user_alpha, j2_ratios[Len(j2_ratios)])
    /\ Interpolated => Len(results) = 10

\* The largest ratio of the slider, 0.9, has been interpolated.
C10_Witness ==
    /\ pc = "done"
    /\ slider = SliderMax
    /\ user_alpha = j2_ratios[Len(j2_ratios)]
    /\ Len(results) = 10
    /\ error = "none"
====
